---- MODULE Spec2Model ----
(***************************************************************************)
(* Model of src/main.py: the investor-conference tracker.                  *)
(*   load_companies / load_state / fetch_content / main / save_state /     *)
(*   generate_readme.                                                      *)
(* Python strings that the code slices, filters or compares are modelled   *)
(* as sequences of one-character strings; identifiers and company names    *)
(* are only compared for equality and stay atomic.                         *)
(***************************************************************************)
EXTENDS Integers, Sequences, FiniteSets, TLC

\* ------------------------------------------------------------------ bounds
\* longest companies.txt a followed run draws
MaxCompanies == 2
\* longest companies.txt the report is rendered for
MaxRows == 3
\* most blue-font texts in the date cell of a page
MaxBlues == 3
\* depth of nested fetch_content frames the interpreter allows before the
\* nested await raises RecursionError (CPython: sys.getrecursionlimit(),
\* 1000 by default; scaled down here)
RecursionLimit == 3

\* ------------------------------------------------------- Python values
\* None, as a value comparable with every modelled str
None == <<"None">>
\* None for the (atomic) company name
NoneName == "<None>"

Truthy(s) == s # None /\ s # <<>>

\* code point of the characters that occur in the modelled strings
CharCode(c) ==
    CASE c = " " -> 32 [] c = "-" -> 45 [] c = "/" -> 47
      [] c = "0" -> 48 [] c = "1" -> 49 [] c = "2" -> 50 [] c = "3" -> 51
      [] c = "4" -> 52 [] c = "5" -> 53 [] c = "6" -> 54 [] c = "7" -> 55
      [] c = "8" -> 56 [] c = "9" -> 57 [] c = "~" -> 126

\* str < str : lexicographic by code point, a proper prefix is smaller
RECURSIVE StrLess(_, _)
StrLess(a, b) ==
    IF b = <<>> THEN FALSE
    ELSE IF a = <<>> THEN TRUE
    ELSE IF a[1] # b[1] THEN CharCode(a[1]) < CharCode(b[1])
    ELSE StrLess(Tail(a), Tail(b))

\* "/" in b
HasSlash(b) == \E k \in 1..Len(b) : b[k] = "/"

\* s.replace("/", "")
RemoveSlash(s) == SelectSeq(s, LAMBDA c : c # "/")

\* int(s) for a string of decimal digits
RECURSIVE ParseInt(_)
ParseInt(s) ==
    IF s = <<>> THEN 0
    ELSE 10 * ParseInt(SubSeq(s, 1, Len(s) - 1)) + (CharCode(s[Len(s)]) - 48)

\* the whole year and its slash cut off: s[5:]
Slice5(s) == SubSeq(s, 6, Len(s))

\* s[4:]
Slice4(s) == SubSeq(s, 5, Len(s))

\* --------------------------------------------------------- the strings
D0701 == <<"2","0","2","4","/","0","7","/","0","1">>
D0703 == <<"2","0","2","4","/","0","7","/","0","3">>
\* blue-font texts that are not dates: too short, or without a slash
TShort == <<"0","7","/","0","1">>
TNoSlash == <<"2","0","2","4","0","7","0","1">>
Sep == <<" ","~"," ">>
Dash == <<"-">>

\* datetime.now().strftime("%Y/%m/%d") on three calendar days
Day0 == <<"2","0","2","4","/","0","5","/","3","1">>
Day1 == <<"2","0","2","4","/","0","6","/","1","0">>
Day2 == <<"2","0","2","4","/","0","6","/","1","1">>
Days == {Day1, Day2}

Ids == {"1101", "2317", "2330"}
\* the identifiers a followed run draws companies.txt from
RunIds == {"1101", "2330"}

\* ------------------------------------------- values of the state mapping
\* a key missing from a dict
Missing == <<"Missing">>

\* a JSON / Python value held under an identifier: a bare str (legacy shape)
\* or a dict with optional "content" and "updated" keys
StrVal(s) == [t |-> "str", s |-> s, content |-> Missing, updated |-> Missing]
DictVal(c, u) == [t |-> "dict", s |-> <<>>, content |-> c, updated |-> u]
\* {}  (also the default of state.get(co_id, {}))
EmptyDict == DictVal(Missing, Missing)

IsDict(v) == v.t = "dict"

\* data.get("content", dflt) / data.get("updated", dflt) on a dict
GetField(f, dflt) == IF f = Missing THEN dflt ELSE f

\* the mapping itself: a Python dict keeps insertion order, so it is a
\* sequence of <<key, value>> pairs with distinct keys
Keys(d) == {d[k][1] : k \in 1..Len(d)}
HasKey(d, key) == key \in Keys(d)
Index(d, key) == CHOOSE k \in 1..Len(d) : d[k][1] = key

\* d.get(key, {})
DictGet(d, key) == IF HasKey(d, key) THEN d[Index(d, key)][2] ELSE EmptyDict

\* d[key] = v : an existing key keeps its place, a new key goes last
DictSet(d, key, v) ==
    IF HasKey(d, key)
    THEN [d EXCEPT ![Index(d, key)] = <<key, v>>]
    ELSE Append(d, <<key, v>>)

\* json.loads of an object: members in document order, a repeated key keeps
\* its first place and takes the last value
RECURSIVE JsonLoads(_)
JsonLoads(doc) ==
    IF doc = <<>> THEN <<>>
    ELSE LET n == Len(doc)
         IN DictSet(JsonLoads(SubSeq(doc, 1, n - 1)), doc[n][1], doc[n][2])

\* json.dumps of the dict: one member per key, in insertion order
JsonDumps(d) == [k \in 1..Len(d) |-> <<d[k][1], d[k][2]>>]

\* state.json on disk
NoFile == [exists |-> FALSE, partial |-> FALSE, doc |-> <<>>]
FileOf(doc) == [exists |-> TRUE, partial |-> FALSE, doc |-> doc]
\* what an interrupted write_text leaves: the file opened for writing, cut short
Truncated == [exists |-> TRUE, partial |-> TRUE, doc |-> <<>>]

\* state.json never read: every run starts from an empty mapping
load_stateFresh(f) == <<>>

\* load_state()
load_state(f) == IF f.exists THEN JsonLoads(f.doc) ELSE <<>>

\* ------------------------------------------------------ the portal pages
\* what the label search for the company name finds in the page text
NoLabel == "<no label>"
LabelOnly == "<label, no token after it>"
\* the row carrying the conference date: absent, without a td, or the texts
\* of the blue fonts of its last td
NoRow == [row |-> FALSE, td |-> FALSE, blues |-> <<>>]
NoTd == [row |-> TRUE, td |-> FALSE, blues |-> <<>>]
Row(blues) == [row |-> TRUE, td |-> TRUE, blues |-> blues]

Overrun == [kind |-> "overrun", name |-> NoLabel, date |-> NoRow]
NetError == [kind |-> "error", name |-> NoLabel, date |-> NoRow]
Page(name, date) == [kind |-> "page", name |-> name, date |-> date]
NoResponse == [kind |-> "none", name |-> NoLabel, date |-> NoRow]

\* [b for b in blues if "/" in b and len(b) >= 8]
DateTokens(blues) == SelectSeq(blues, LAMBDA b : HasSlash(b) /\ Len(b) >= 8)

\* the date derived from the blue-font texts
DeriveDate(blues) ==
    LET dates == DateTokens(blues)
    IN IF Len(dates) >= 2
       THEN LET start == dates[1]
                end == dates[2]
            IN IF start = end THEN start ELSE start \o Sep \o Slice4(end)
       ELSE IF Len(dates) >= 1 THEN dates[1]
       ELSE None

\* the date of the page
ParseDate(date) == IF date.row /\ date.td THEN DeriveDate(date.blues) ELSE None

\* the name of the page
ParseName(name) == IF name = NoLabel THEN NoneName ELSE name

\* text.split(label)[1].split()[0] raises IndexError when nothing follows
ParseRaises(page) == page.name = LabelOnly

Result(name, content) == [name |-> name, content |-> content]

\* the except branch of fetch_content
OnException == Result(NoneName, None)

\* the body of fetch_content after a response without the marker
ParsePage(page) ==
    IF ParseRaises(page) THEN OnException
    ELSE Result(ParseName(page.name), ParseDate(page.date))

\* ------------------------------------------------------------ the state
VARIABLES
    companies,    \* load_companies(): the identifiers, in file order
    file,         \* state.json
    state,        \* main: state
    updates,      \* main: updates, entries <<co_id, name or ''>>
    names,        \* main: names
    today,        \* main: today
    i,            \* main: position of co_id in companies (1-based)
    old_content,  \* main: old_content
    result,       \* main: (name, new_content)
    pc,           \* where the run stands
    depth,        \* nested fetch_content frames of the current fetch
    resp,         \* fetch_content: res, the last response received
    log,          \* what the current fetch did so far: requests, markers, waits
    readme,       \* README.md
    run,          \* which run of main() this is
    writes,       \* the files this run wrote so far, in order
    loaded,       \* state.json as it was when this run started
    before,       \* state and updates as they were before the last comparison
    savedPrev,    \* state.json as the previous run left it
    seen          \* per identifier, what its fetches returned over all runs

vars == <<companies, file, state, updates, names, today, i, old_content,
          result, pc, depth, resp, log, readme, run, writes, loaded,
          before, savedPrev, seen>>

NoEntry == "<no entry>"
NoNames == [id \in Ids |-> NoEntry]
NoReadme == [written |-> FALSE, updates |-> <<>>, rows |-> <<>>]
NoResult == Result(NoneName, None)
NoBefore == [state |-> <<>>, updates |-> <<>>, set |-> FALSE]

Unset == Result("<unset>", None)
Conflict == Result("<conflict>", None)
NoSeen == [id \in Ids |-> Unset]
Note(s, id, r) ==
    [s EXCEPT ![id] = IF s[id] = Unset THEN r
                      ELSE IF s[id] = r THEN r ELSE Conflict]

\* the memory of a process that has not started, or has ended
Memory ==
    /\ state = <<>>
    /\ updates = <<>>
    /\ names = NoNames
    /\ today = Day1
    /\ i = 1
    /\ old_content = <<>>
    /\ result = NoResult
    /\ depth = 0
    /\ resp = NoResponse
    /\ log = <<>>
    /\ before = NoBefore

\* the process ends: its memory is gone
Forget ==
    /\ state' = <<>>
    /\ updates' = <<>>
    /\ names' = NoNames
    /\ today' = Day1
    /\ i' = 1
    /\ old_content' = <<>>
    /\ result' = NoResult
    /\ depth' = 0
    /\ resp' = NoResponse
    /\ log' = <<>>
    /\ before' = NoBefore

\* it ends before its run is complete: what its fetches returned no longer
\* counts
ProcessEnds == Forget /\ seen' = NoSeen

\* the identifier being processed
co_id == companies[i]

\* ------------------------------------------------------------- main()
\* old.get("content", "") if isinstance(old, dict) else old
OldContent(old) == IF IsDict(old) THEN GetField(old.content, <<>>) ELSE old.s

\* the comparison left out: any fetched content counts as a change
ChangedIfAny(new, old) == Truthy(new)

\* new_content and new_content != old_content
Changed(new, old) == Truthy(new) /\ new # old

\* the new content stored in the legacy shape, without its date
NewRecordBare(new, day) == StrVal(new)

\* {"content": new_content, "updated": today}
NewRecord(new, day) == DictVal(new, day)

\* name or x
NameOr(name, x) == IF name = NoneName THEN x ELSE name

\* companies = load_companies(); state = load_state(); updates = [];
\* names = {}; today = now. The day of the first run is called Day1; a later
\* run falls on the same day or on another
Start ==
    /\ pc = "start"
    /\ state' = load_state(file)
    /\ updates' = <<>>
    /\ names' = NoNames
    /\ \E d \in Days : today' = d
    /\ run = "first" => today' = Day1
    /\ i' = 1
    /\ writes' = <<>>
    /\ loaded' = file
    /\ before' = NoBefore
    /\ pc' = "loop"
    /\ UNCHANGED <<companies, file, old_content, result, depth, resp, log,
                   readme, run, savedPrev, seen>>

\* for co_id in companies: old = state.get(co_id, {}); old_content = ...;
\* fetch_content is called
LoopHead ==
    /\ pc = "loop"
    /\ i <= Len(companies)
    /\ old_content' = OldContent(DictGet(state, co_id))
    /\ depth' = 1
    /\ log' = <<>>
    /\ resp' = NoResponse
    /\ result' = NoResult
    /\ pc' = "post"
    /\ UNCHANGED <<companies, file, state, updates, names, today, i, readme,
                   run, writes, loaded, before, savedPrev, seen>>

\* the for loop is exhausted; the client is closed
LoopExit ==
    /\ pc = "loop"
    /\ i > Len(companies)
    /\ pc' = "save"
    /\ UNCHANGED <<companies, file, state, updates, names, today, i,
                   old_content, result, depth, resp, log, readme, run,
                   writes, loaded, before, savedPrev, seen>>

\* ------------------------------------------------------ fetch_content()
\* the pages the portal answers with in a run
PortalPages ==
    { Page("TSMC", Row(<<D0701>>)),
      Page(NoLabel, Row(<<D0701, D0703>>)),
      Page("TSMC", NoRow),
      Page(LabelOnly, Row(<<D0701>>)) }

Event(ev) == <<ev, co_id>>

\* return through every nested frame: each frame returns what the frame it
\* awaited returned
Return(r) ==
    /\ result' = r
    /\ depth' = 0
    /\ seen' = Note(seen, co_id, r)
    /\ pc' = "detect"

\* no except branch: the exception leaves fetch_content and main()
PostFailsPropagates ==
    /\ pc = "post"
    /\ pc' = "aborted"
    /\ ProcessEnds
    /\ UNCHANGED <<companies, file, readme, run, writes, loaded, savedPrev>>

\* client.post raises (network error, timeout): except Exception
PostFails ==
    /\ pc = "post"
    /\ log' = Append(log, Event("req"))
    /\ resp' = NetError
    /\ Return(OnException)
    /\ UNCHANGED <<companies, file, state, updates, names, today, i,
                   old_content, readme, run, writes, loaded, before,
                   savedPrev>>

\* the response carries the marker: "Overrun" in res.text
PostOverrun ==
    /\ pc = "post"
    /\ log' = Append(Append(log, Event("req")), Event("overrun"))
    /\ resp' = Overrun
    /\ pc' = "sleep"
    /\ UNCHANGED <<companies, file, state, updates, names, today, i,
                   old_content, result, depth, readme, run, writes,
                   loaded, before, savedPrev, seen>>

\* a response without the marker is parsed and its result returned
PostPage ==
    /\ pc = "post"
    /\ \E page \in PortalPages :
          /\ resp' = page
          /\ Return(ParsePage(page))
    /\ log' = Append(log, Event("req"))
    /\ UNCHANGED <<companies, file, state, updates, names, today, i,
                   old_content, readme, run, writes, loaded, before,
                   savedPrev>>

\* await asyncio.sleep(30); return await fetch_content(client, co_id):
\* the retry runs in a nested frame
Retry ==
    /\ pc = "sleep"
    /\ depth < RecursionLimit
    /\ log' = Append(log, Event("wait"))
    /\ depth' = depth + 1
    /\ pc' = "post"
    /\ UNCHANGED <<companies, file, state, updates, names, today, i,
                   old_content, result, resp, readme, run, writes,
                   loaded, before, savedPrev, seen>>

\* the nested await exceeds the interpreter's recursion limit: RecursionError
\* is an Exception, raised inside the try and caught by except Exception
RetryRecursionError ==
    /\ pc = "sleep"
    /\ depth >= RecursionLimit
    /\ log' = Append(log, Event("wait"))
    /\ Return(OnException)
    /\ UNCHANGED <<companies, file, state, updates, names, today, i,
                   old_content, resp, readme, run, writes, loaded,
                   before, savedPrev>>

\* ------------------------------------------------- main(), continued
\* the state saved inside the loop, whenever a change is detected
DetectAndSave ==
    /\ pc = "detect"
    /\ before' = [state |-> state, updates |-> updates, set |-> TRUE]
    /\ names' = [names EXCEPT ![co_id] = NameOr(result.name, co_id)]
    /\ IF Changed(result.content, old_content)
       THEN /\ updates' = Append(updates, <<co_id, NameOr(result.name, "")>>)
            /\ state' = DictSet(state, co_id, NewRecord(result.content, today))
            /\ file' = FileOf(JsonDumps(state'))
       ELSE UNCHANGED <<updates, state, file>>
    /\ pc' = "pace"
    /\ UNCHANGED <<companies, today, i, old_content, result, depth,
                   resp, log, readme, run, writes, loaded, savedPrev, seen>>

\* names[co_id] = name or co_id; the comparison; the new record
Detect ==
    /\ pc = "detect"
    /\ before' = [state |-> state, updates |-> updates, set |-> TRUE]
    /\ names' = [names EXCEPT ![co_id] = NameOr(result.name, co_id)]
    /\ IF Changed(result.content, old_content)
       THEN /\ updates' = Append(updates, <<co_id, NameOr(result.name, "")>>)
            /\ state' = DictSet(state, co_id, NewRecord(result.content, today))
       ELSE UNCHANGED <<updates, state>>
    /\ pc' = "pace"
    /\ UNCHANGED <<companies, file, today, i, old_content, result, depth,
                   resp, log, readme, run, writes, loaded, savedPrev, seen>>

\* await asyncio.sleep(0.1); the loop moves on. What the iteration left in
\* old, old_content, name and new_content is not read again
Pace ==
    /\ pc = "pace"
    /\ i' = i + 1
    /\ before' = NoBefore
    /\ old_content' = <<>>
    /\ result' = NoResult
    /\ resp' = NoResponse
    /\ log' = <<>>
    /\ pc' = "loop"
    /\ UNCHANGED <<companies, file, state, updates, names, today, depth,
                   readme, run, writes, loaded, savedPrev, seen>>

\* save_state(state)
SaveState ==
    /\ pc = "save"
    /\ writes' = Append(writes, "state")
    /\ file' = FileOf(JsonDumps(state))
    /\ pc' = "report"
    /\ UNCHANGED <<companies, state, updates, names, today, i, old_content,
                   result, depth, resp, log, readme, run, loaded, before,
                   savedPrev, seen>>

\* write_text raises: the exception leaves main(); the file is as it was
\* (it could not be opened) or cut short
SaveFails ==
    /\ pc = "save"
    /\ writes' = Append(writes, "state")
    /\ file' \in {file, Truncated}
    /\ pc' = "aborted"
    /\ ProcessEnds
    /\ UNCHANGED <<companies, readme, run, loaded, savedPrev>>

\* ---------------------------------------------------- generate_readme()
\* the date not negated: the oldest update first
sort_keyAscending(st, id) ==
    LET data == DictGet(st, id)
        updated == IF IsDict(data) THEN GetField(data.updated, <<>>) ELSE <<>>
        content == IF IsDict(data) THEN GetField(data.content, <<>>) ELSE <<>>
    IN <<IF updated # <<>> THEN ParseInt(RemoveSlash(updated)) ELSE 0,
         content>>

\* sort_key(co_id): (-int(updated.replace("/", "")) if updated else 0, content)
sort_key(st, id) ==
    LET data == DictGet(st, id)
        updated == IF IsDict(data) THEN GetField(data.updated, <<>>) ELSE <<>>
        content == IF IsDict(data) THEN GetField(data.content, <<>>) ELSE <<>>
    IN <<IF updated # <<>> THEN 0 - ParseInt(RemoveSlash(updated)) ELSE 0,
         content>>

\* tuple comparison of two keys
KeyLess(a, b) == a[1] < b[1] \/ (a[1] = b[1] /\ StrLess(a[2], b[2]))

\* sorted(companies, key=sort_key): a stable sort
RECURSIVE Insert(_, _, _)
Insert(out, x, st) ==
    IF out = <<>> THEN <<x>>
    ELSE LET n == Len(out)
         IN IF KeyLess(sort_key(st, x), sort_key(st, out[n]))
            THEN Append(Insert(SubSeq(out, 1, n - 1), x, st), out[n])
            ELSE Append(out, x)

RECURSIVE Sorted(_, _)
Sorted(seq, st) ==
    IF seq = <<>> THEN <<>>
    ELSE LET n == Len(seq)
         IN Insert(Sorted(SubSeq(seq, 1, n - 1), st), seq[n], st)

\* one line of the table: | co_id | name | content | updated |
TableRow(st, nm, id) ==
    LET data == DictGet(st, id)
        name == IF nm[id] = NoEntry THEN id ELSE nm[id]
    IN IF IsDict(data)
       THEN <<id, name, GetField(data.content, Dash), GetField(data.updated, Dash)>>
       ELSE <<id, name, IF data.s # <<>> THEN data.s ELSE Dash, Dash>>

Render(cos, st, ups, nm) ==
    LET sorted_companies == Sorted(cos, st)
    IN [written |-> TRUE,
        updates |-> ups,
        rows |-> [k \in 1..Len(sorted_companies) |->
                     TableRow(st, nm, sorted_companies[k])]]

\* generate_readme(companies, state, updates, names); the summary is printed
GenerateReadme ==
    /\ pc = "report"
    /\ readme' = Render(companies, state, updates, names)
    /\ writes' = Append(writes, "readme")
    /\ pc' = "done"
    /\ UNCHANGED <<companies, file, state, updates, names, today, i,
                   old_content, result, depth, resp, log, run, loaded,
                   before, savedPrev, seen>>

\* ------------------------------------------------------ the environment
\* the process is killed from outside while the run is under way
Kill ==
    /\ pc \in {"loop", "post", "sleep", "detect", "pace", "save", "report"}
    /\ pc' = "killed"
    /\ ProcessEnds
    /\ UNCHANGED <<companies, file, readme, run, writes, loaded, savedPrev>>

\* the scheduler starts main() again after a completed run
NextRun ==
    /\ pc = "done"
    /\ run = "first"
    /\ run' = "second"
    /\ savedPrev' = file
    /\ pc' = "start"
    /\ Forget
    /\ UNCHANGED <<companies, file, readme, writes, loaded, seen>>

\* ----------------------------------------------------- specifications
SeqsUpTo(S, n) == UNION {[1..k -> S] : k \in 0..n}

Range0703 == DeriveDate(<<D0701, D0703>>)

\* state.json before the first run: absent, empty, legacy bare strings,
\* records, a repeated key
InitFiles ==
    { NoFile,
      FileOf(<<>>),
      FileOf(<< <<"1101", StrVal(D0701)>> >>),
      FileOf(<< <<"2330", DictVal(D0701, Day0)>>, <<"1101", DictVal(Range0703, Day0)>> >>),
      FileOf(<< <<"2330", StrVal(D0703)>>, <<"2330", DictVal(D0701, Missing)>> >>),
      FileOf(<< <<"2330", StrVal(Range0703)>>, <<"1101", DictVal(D0703, Day0)>> >>) }

Rest ==
    /\ readme = NoReadme
    /\ run = "first"
    /\ writes = <<>>
    /\ savedPrev = NoFile
    /\ seen = NoSeen

\* the process is started: companies.txt and state.json are as the
\* operator left them
Init ==
    /\ companies \in SeqsUpTo(RunIds, MaxCompanies)
    /\ file \in InitFiles
    /\ loaded = file
    /\ Memory
    /\ pc = "start"
    /\ Rest

Next ==
    \/ Start
    \/ LoopHead
    \/ LoopExit
    \/ PostFails
    \/ PostOverrun
    \/ PostPage
    \/ Retry
    \/ RetryRecursionError
    \/ Detect
    \/ Pace
    \/ SaveState
    \/ SaveFails
    \/ GenerateReadme
    \/ Kill
    \/ NextRun

Spec == Init /\ [][Next]_vars

\* ---------------------------------------- fetch_content's parsing alone
Tokens == {D0701, D0703, TShort, TNoSlash}

AllPages ==
    { Page(n, d) : n \in {NoLabel, LabelOnly, "TSMC"},
                   d \in {NoRow, NoTd} \cup {Row(b) : b \in SeqsUpTo(Tokens, MaxBlues)} }

\* a response without the marker has arrived for the only identifier
InitParse ==
    /\ companies = <<"2330">>
    /\ file = NoFile
    /\ loaded = NoFile
    /\ state = <<>>
    /\ updates = <<>>
    /\ names = NoNames
    /\ today = Day1
    /\ i = 1
    /\ old_content = <<>>
    /\ result = NoResult
    /\ depth = 1
    /\ resp \in AllPages
    /\ log = <<Event("req")>>
    /\ before = NoBefore
    /\ pc = "parse"
    /\ Rest

\* soup = BeautifulSoup(...); name; date; return name, date (or the except)
ParseResponse ==
    /\ pc = "parse"
    /\ Return(ParsePage(resp))
    /\ UNCHANGED <<companies, file, state, updates, names, today, i,
                   old_content, resp, log, readme, run, writes, loaded,
                   before, savedPrev>>

NextParse == ParseResponse

SpecParse == InitParse /\ [][NextParse]_vars

\* ------------------------------------------------ generate_readme alone
IdOrder == <<"1101", "2317", "2330">>
AbsentVal == [t |-> "absent", s |-> <<>>, content |-> Missing, updated |-> Missing]

\* the values a record can have when the report is rendered
ReportValues ==
    { StrVal(D0701), StrVal(D0703), EmptyDict,
      DictVal(D0703, Missing),
      DictVal(D0701, Day1), DictVal(D0703, Day1),
      DictVal(D0701, Day2), DictVal(Range0703, Day0) }

ToDict(f) ==
    SelectSeq([k \in 1..Len(IdOrder) |-> <<IdOrder[k], f[IdOrder[k]]>>],
              LAMBDA p : p[2] # AbsentVal)

\* main() has saved the state and calls generate_readme
InitReport ==
    /\ companies \in SeqsUpTo(Ids, MaxRows)
    /\ \E f \in [Ids -> ReportValues \cup {AbsentVal}] : state = ToDict(f)
    /\ file = FileOf(JsonDumps(state))
    /\ loaded = file
    /\ updates = <<>>
    /\ names \in {NoNames, [id \in Ids |-> IF id = "2330" THEN "TSMC" ELSE id]}
    /\ today = Day2
    /\ i = Len(companies) + 1
    /\ old_content = <<>>
    /\ result = NoResult
    /\ depth = 0
    /\ resp = NoResponse
    /\ log = <<>>
    /\ before = NoBefore
    /\ pc = "report"
    /\ readme = NoReadme
    /\ run = "first"
    /\ writes = <<"state">>
    /\ savedPrev = NoFile
    /\ seen = NoSeen

NextReport == GenerateReadme

SpecReport == InitReport /\ [][NextReport]_vars

\* ============================================================== claims
\* what a record says, read off the mapping without the code's helpers
RecordOf(d, id) == d[CHOOSE k \in 1..Len(d) : d[k][1] = id][2]
Has(d, id) == \E k \in 1..Len(d) : d[k][1] = id
\* the content of the record of id: the bare string itself, or the field
ContentIn(d, id) ==
    IF ~Has(d, id) THEN Missing
    ELSE IF RecordOf(d, id).t = "str" THEN RecordOf(d, id).s
    ELSE RecordOf(d, id).content
UpdatedIn(d, id) == IF ~Has(d, id) THEN Missing ELSE RecordOf(d, id).updated
SameRecord(d, e, id) ==
    /\ Has(d, id) = Has(e, id)
    /\ Has(d, id) => RecordOf(d, id) = RecordOf(e, id)

\* the comparison for co_id has just been made
Compared == pc = "pace"
Fetched == result.content
HasContent(c) == c # None /\ c # <<>> /\ c # Missing

\* C1: when X has a prior record with content C_old and its fetch returns a
\* non-empty C_new other than C_old, then after X is processed exactly one
\* entry for X was appended to the change list, X's record is
\* {content: C_new, updated: today}, and every other record is as it was.
C1_ChangeDetected ==
    (/\ Compared
     /\ Has(before.state, co_id)
     /\ ContentIn(before.state, co_id) # Missing
     /\ HasContent(Fetched)
     /\ Fetched # ContentIn(before.state, co_id))
    => /\ Len(updates) = Len(before.updates) + 1
       /\ SubSeq(updates, 1, Len(before.updates)) = before.updates
       /\ updates[Len(updates)][1] = co_id
       /\ Has(state, co_id)
       /\ RecordOf(state, co_id) =
             [t |-> "dict", s |-> <<>>, content |-> Fetched, updated |-> today]
       /\ \A id \in Ids \ {co_id} : SameRecord(state, before.state, id)

C1_Witness ==
    /\ Compared
    /\ Has(before.state, co_id)
    /\ ContentIn(before.state, co_id) = D0701
    /\ Fetched = Range0703
    /\ Len(before.state) = 2
    /\ Len(updates) = Len(before.updates) + 1

\* C2: when the fetched content is None, empty or equal to the content of
\* X's prior record, X's record is exactly as it was (or still absent) and
\* nothing is appended to the change list; an updated date is rewritten only
\* in a step in which the content of its record changes.
C2_NoChangeNoWrite ==
    Compared =>
       /\ (\/ ~HasContent(Fetched)
           \/ (Has(before.state, co_id)
                 /\ Fetched = ContentIn(before.state, co_id)))
          => /\ state = before.state
             /\ updates = before.updates
       /\ \A id \in Ids :
             UpdatedIn(state, id) # UpdatedIn(before.state, id)
                => ContentIn(state, id) # ContentIn(before.state, id)

C2_Witness ==
    /\ Compared
    /\ Has(before.state, co_id)
    /\ Fetched = ContentIn(before.state, co_id)
    /\ UpdatedIn(before.state, co_id) = Day0
    /\ today = Day2
    /\ state = before.state

\* C3: when main() runs twice and every fetch of an identifier returns the
\* same (name, content) throughout both runs, the second run's change list
\* is empty and the state document it saves equals the one the first run
\* saved, whatever today is in either run.
SameAnswers == \A id \in Ids : seen[id] # Conflict

C3_SecondRunIdempotent ==
    (pc = "done" /\ run = "second" /\ SameAnswers)
    => /\ updates = <<>>
       /\ file = savedPrev

C3_Witness ==
    /\ pc = "done"
    /\ run = "second"
    /\ SameAnswers
    /\ today = Day2
    /\ Len(companies) = 2
    /\ companies[1] = companies[2]
    /\ UpdatedIn(state, companies[1]) = Day1
    /\ \E id \in Ids : Has(state, id) /\ RecordOf(state, id).t = "str"
    /\ file = savedPrev

\* the fetch of co_id ended in an exception: in the request or in the parse
FetchRaised == resp.kind = "error" \/ (resp.kind = "page" /\ resp.name = LabelOnly)

\* C8: an exception raised while fetching or parsing one identifier, also
\* in a retry after a rate limit, makes fetch_content return (None, None);
\* the run is not aborted by it: the record of that identifier stays as it
\* was, the later identifiers are processed, and the state document and the
\* report are written at the end of the run.
C8_FetchFailureRecovered ==
    /\ (pc \in {"detect", "pace"} /\ FetchRaised)
          => result = [name |-> NoneName, content |-> None]
    /\ (Compared /\ FetchRaised)
          => state = before.state /\ updates = before.updates
    /\ pc = "aborted" => writes = <<"state">>
    /\ pc \in {"save", "report", "done"}
          => /\ i = Len(companies) + 1
             /\ \A k \in 1..Len(companies) : names[companies[k]] # NoEntry
    /\ pc = "done" => /\ writes = <<"state", "readme">>
                      /\ file = [exists |-> TRUE, partial |-> FALSE, doc |-> state]
                      /\ readme.written
                      /\ Len(readme.rows) = Len(companies)

C8_Witness ==
    /\ pc = "done"
    /\ Len(companies) = 2
    /\ companies[1] # companies[2]
    /\ names[companies[1]] = companies[1]
    /\ names[companies[2]] # NoEntry
    /\ seen[companies[1]] = [name |-> NoneName, content |-> None]
    /\ ContentIn(state, companies[1]) = Range0703
    /\ UpdatedIn(state, companies[1]) = Day0
    /\ UpdatedIn(state, companies[2]) = today
    /\ run = "first"

\* C9: the state document is written once per run, after the last
\* identifier was processed and before the report; until then state.json is
\* what it was when the run started, so a run killed before the write loses
\* every change it detected; a failed state write leaves the report
\* unwritten.
C9_PersistOnceAtEnd ==
    /\ writes \in {<<>>, <<"state">>, <<"state", "readme">>}
    /\ pc \in {"loop", "post", "sleep", "detect", "pace", "save"}
          => writes = <<>> /\ file = loaded
    /\ pc = "save" => i = Len(companies) + 1
    /\ pc = "report" => /\ writes = <<"state">>
                        /\ i = Len(companies) + 1
                        /\ file = [exists |-> TRUE, partial |-> FALSE, doc |-> state]
    /\ pc = "done" => writes = <<"state", "readme">>
    /\ (pc = "killed" /\ writes = <<>>) => file = loaded
    /\ pc = "aborted" => writes = <<"state">>

C9_Witness ==
    /\ pc = "save"
    /\ Len(updates) = 2
    /\ file = loaded
    /\ state # load_state(loaded)
    /\ writes = <<>>

\* the events of the current fetch
Ev(k) == log[k][1]
Count(ev) == Cardinality({k \in 1..Len(log) : Ev(k) = ev})

\* C4: every response carrying the marker causes exactly one cooldown wait
\* followed by exactly one retried request for the same identifier, so a
\* fetch that saw k markers made k+1 requests and k waits, in alternation;
\* its result is derived from the last response only; no request for another
\* identifier is made before it returns.
C4_OneRetryPerMarker ==
    pc = "detect" =>
       /\ \A k \in 1..Len(log) : log[k][2] = co_id
       /\ \A k \in 1..Len(log) :
             Ev(k) = "overrun"
                => /\ k + 2 <= Len(log)
                   /\ Ev(k + 1) = "wait"
                   /\ Ev(k + 2) = "req"
       /\ Count("req") = Count("overrun") + 1
       /\ Count("wait") = Count("overrun")
       /\ resp.kind = "page" => result = ParsePage(resp)

\* C10: fetch_content has no retry cap and never turns rate limiting into a
\* fatal error or into (None, None): a fetch returns only after a response
\* without the marker or a failed request, so under a portal that answers
\* every request with the marker the run never gets past that identifier.
C10_RateLimitNeverGivenUp ==
    /\ pc \in {"detect", "pace"} => resp.kind \in {"page", "error"}
    /\ pc = "aborted" => writes # <<>>

\* the mapping with every bare string S replaced by {content: S}
Normalized(d) ==
    [k \in 1..Len(d) |->
        <<d[k][1],
          IF d[k][2].t = "str"
          THEN [t |-> "dict", s |-> <<>>, content |-> d[k][2].s, updated |-> Missing]
          ELSE d[k][2]>>]

\* C7: a bare string S under an identifier is treated everywhere as the
\* record {content: S} without an updated date: in the comparison of main(),
\* in the sort key and in the table row of the report.
C7_LegacyAsRecord ==
    /\ (Compared /\ Has(before.state, co_id)
          /\ RecordOf(before.state, co_id).t = "str")
          => ((state # before.state)
                <=> (HasContent(Fetched)
                       /\ Fetched # RecordOf(before.state, co_id).s))
    /\ pc = "done" => readme = Render(companies, Normalized(state), updates, names)

\* ------------------------------------------------------------ parsing
Parsed == pc = "detect" /\ resp.kind = "page" /\ resp.name # LabelOnly
Range0703Short == D0701 \o Sep \o <<"/","0","3">>
Range0703Full == D0701 \o Sep \o <<"/","0","7","/","0","3">>

\* C5 as stated: the tokens 2024/07/01, 2024/07/03 give "2024/07/01 ~ /03",
\* and 2024/07/01 twice gives "2024/07/01".
C5_RangeAsStated ==
    Parsed =>
       /\ resp.date = Row(<<D0701, D0703>>) => result.content = Range0703Short
       /\ resp.date = Row(<<D0701, D0701>>) => result.content = D0701

\* C5, amended: the tokens 2024/07/01, 2024/07/03 give "2024/07/01 ~ /07/03":
\* the start verbatim, the end without its first 4 characters; 2024/07/01
\* twice gives "2024/07/01".
C5_RangeFormat ==
    Parsed =>
       /\ resp.date = Row(<<D0701, D0703>>) => result.content = Range0703Full
       /\ resp.date = Row(<<D0701, D0701>>) => result.content = D0701

C5_Witness ==
    /\ Parsed
    /\ resp.date = Row(<<D0701, D0703>>)
    /\ result.content = Range0703Full

\* ------------------------------------------------------------- report
RowId(k) == readme.rows[k][1]
\* well-formed dates of one width: the later date is the greater string
Later(a, b) == a # Missing /\ b # Missing /\ StrLess(b, a)

\* C6: in the table every identifier whose record has a later updated date
\* stands before every identifier whose record has an earlier one, and every
\* identifier without a record stands after all identifiers whose record has
\* an updated date.
C6_ReportOrder ==
    pc = "done" =>
       /\ Len(readme.rows) = Len(companies)
       /\ \A id \in Ids :
             Cardinality({k \in 1..Len(companies) : companies[k] = id})
                = Cardinality({k \in 1..Len(readme.rows) : RowId(k) = id})
       /\ \A p, q \in 1..Len(readme.rows) :
             /\ Later(UpdatedIn(state, RowId(p)), UpdatedIn(state, RowId(q)))
                   => p < q
             /\ (UpdatedIn(state, RowId(p)) # Missing /\ ~Has(state, RowId(q)))
                   => p < q

C6_Witness ==
    /\ pc = "done"
    /\ Len(companies) = 3
    /\ ~Has(state, companies[1])
    /\ UpdatedIn(state, companies[2]) = Day0
    /\ UpdatedIn(state, companies[3]) = Day2
    /\ RowId(1) = companies[3]
    /\ RowId(2) = companies[2]
    /\ RowId(3) = companies[1]
====
